---- MODULE Spec2Model ----
(***************************************************************************)
(* Model of webhook_server.py: the Jira webhook handler jira_webhook and   *)
(* the DatabaseManager operations on the table jira_cloobot_mapping.       *)
(*                                                                         *)
(* Webhook handles one POST /webhook/jira from the first line of           *)
(* jira_webhook to its response.  The payload, the tracker's answer to the *)
(* child search and the fate of the store statement are inputs.  Return    *)
(* lets the server wait for the next delivery.  This is Spec.              *)
(*                                                                         *)
(* SpecSteps runs two requests side by side, as the transport's worker     *)
(* threads do, each in the steps in which it can be overtaken: receiving,  *)
(* the child search, opening a connection, the statement with its commit,  *)
(* and closing the connection before the response.                         *)
(***************************************************************************)
EXTENDS Integers, Sequences, FiniteSets, TLC

VARIABLES store, clock, env, last, hist, procs

vars == <<store, clock, env, last, hist, procs>>

----------------------------------------------------------------------------
(* Bounds of the model *)

\* Number of webhook deliveries in one behaviour.
MaxClock == 2

\* Longest list of child issues the tracker's search returns.
MaxChildren == 2

----------------------------------------------------------------------------
(* JSON values.  dict.get(k) yields None for a missing key and for a null  *)
(* value alike; dict.get(k, default) yields the default only when missing. *)

ABSENT == "<absent>"
NULL == "<null>"

\* Issue keys used in deliveries and in the table.
Keys == {"PROJ-10", "PROJ-11", "PROJ-99"}

\* Strings that the handler lower-cases are sequences of characters.
EpicTitle == <<"E", "p", "i", "c">>
EpicUpper == <<"E", "P", "I", "C">>
epic == <<"e", "p", "i", "c">>
Story == <<"S", "t", "o", "r", "y">>
SummaryTitle == <<"S", "u", "m", "m", "a", "r", "y">>
summary == <<"s", "u", "m", "m", "a", "r", "y">>
statusField == <<"s", "t", "a", "t", "u", "s">>

\* str.lower() on the characters above.
lowerChar(c) ==
    CASE c = "E" -> "e"
      [] c = "P" -> "p"
      [] c = "I" -> "i"
      [] c = "C" -> "c"
      [] c = "S" -> "s"
      [] OTHER -> c

lower(s) == [i \in DOMAIN s |-> lowerChar(s[i])]

\* str(x) as insert_mapping applies it: str(None) is the text "None".
str(x) == IF x \in {ABSENT, NULL} THEN "None" ELSE x

\* Python truthiness of issue_data.get('key').
truthy(x) == x \notin {ABSENT, NULL, ""}

----------------------------------------------------------------------------
(* Payloads *)

\* issue.fields.issuetype.name, with the shapes the lookup chain can meet.
TypeShapes == {"fields_absent", "fields_null", "issuetype_absent",
               "issuetype_null", "name_absent", "name_null"}

NoType == [shape |-> "fields_absent", name |-> <<>>]

TypeValues ==
    [shape : TypeShapes, name : {<<>>}]
    \cup [shape : {"name"}, name : {EpicTitle, EpicUpper, epic, Story}]

EpicTypes == [shape : {"name"}, name : {EpicTitle, EpicUpper, epic}]

\* One entry of changelog.items.
ItemValues ==
    [shape : {"scalar"}, field : {ABSENT}, name : {<<>>}]
    \cup [shape : {"object"}, field : {ABSENT, NULL}, name : {<<>>}]
    \cup [shape : {"object"}, field : {"string"},
          name : {summary, SummaryTitle, statusField}]

NoChangelog == [shape |-> "absent", items |-> <<>>]

Changelogs ==
    [shape : {"absent", "null", "empty", "no_items", "items_null", "scalar"},
     items : {<<>>}]
    \cup [shape : {"items"}, items : {<<>>} \cup {<<i>> : i \in ItemValues}]
    \cup [shape : {"items"},
          items : {<<[shape |-> "object", field |-> "string", name |-> statusField], i>> :
                     i \in ItemValues}]

IdValues == {ABSENT, "10010"}

KeyValues == Keys \cup {ABSENT, NULL, ""}

NoIssue(shape) == [shape |-> shape, key |-> ABSENT, id |-> ABSENT, typ |-> NoType]

Issue(key, id, typ) == [shape |-> "object", key |-> key, id |-> id, typ |-> typ]

created == "jira:issue_created"
updated == "jira:issue_updated"
deleted == "jira:issue_deleted"
worklog == "jira:worklog_updated"

EventTypes == {created, updated, deleted, worklog, "JIRA:ISSUE_DELETED", ABSENT}

\* A payload whose fields the branch does not read are as hostile as can be.
HostileType == [shape |-> "fields_null", name |-> <<>>]
HostileChangelog == [shape |-> "items_null", items |-> <<>>]

Payloads ==
    \* issue missing, null or not an object
    [webhookEvent : EventTypes,
     issue : {NoIssue(s) : s \in {"absent", "null", "scalar"}},
     changelog : {NoChangelog}]
    \* every key value under every event
    \cup [webhookEvent : EventTypes,
          issue : {Issue(k, ABSENT, NoType) : k \in KeyValues},
          changelog : {NoChangelog}]
    \* created: the issue id varies
    \cup [webhookEvent : {created},
          issue : {Issue(k, i, NoType) : k \in Keys, i \in IdValues},
          changelog : {NoChangelog}]
    \* updated: the changelog varies
    \cup [webhookEvent : {updated},
          issue : {Issue(k, ABSENT, NoType) : k \in Keys},
          changelog : Changelogs]
    \* deleted: the issue type varies
    \cup [webhookEvent : {deleted},
          issue : {Issue(k, ABSENT, t) : k \in Keys, t \in TypeValues},
          changelog : {NoChangelog}]
    \* every event with hostile values in the fields its branch does not read
    \cup [webhookEvent : {created, worklog, "JIRA:ISSUE_DELETED", ABSENT},
          issue : {Issue(k, ABSENT, HostileType) : k \in Keys},
          changelog : {HostileChangelog}]
    \cup [webhookEvent : {updated},
          issue : {Issue(k, ABSENT, HostileType) : k \in Keys},
          changelog : {NoChangelog}]
    \cup [webhookEvent : {deleted},
          issue : {Issue(k, ABSENT, NoType) : k \in Keys},
          changelog : {HostileChangelog}]

----------------------------------------------------------------------------
(* The tracker's answer to requests.post(search_url, ...) *)

RECURSIVE SeqsUpTo(_, _)
SeqsUpTo(S, n) ==
    IF n = 0 THEN {<<>>}
    ELSE LET shorter == SeqsUpTo(S, n - 1)
         IN shorter \cup {Append(s, x) : s \in shorter, x \in S}

NoLookup == [raised |-> FALSE, status_code |-> 0, keys |-> <<>>]

Lookups ==
    [raised : {FALSE}, status_code : {200}, keys : SeqsUpTo(Keys, MaxChildren)]
    \cup [raised : {FALSE}, status_code : {404, 503}, keys : {<<>>}]
    \cup [raised : {TRUE}, status_code : {0}, keys : {<<>>}]

\* What the store does with the statement of this delivery.
Faults == {"none", "connect", "execute"}

----------------------------------------------------------------------------
(* Environment: which variables os.environ holds *)

FullEnv == [DATABASE_URL |-> TRUE, JIRA_BASE_URL |-> TRUE,
            JIRA_EMAIL |-> TRUE, JIRA_API_TOKEN |-> TRUE]

Envs == {FullEnv,
         [FullEnv EXCEPT !.DATABASE_URL = FALSE],
         [FullEnv EXCEPT !.JIRA_BASE_URL = FALSE],
         [FullEnv EXCEPT !.JIRA_EMAIL = FALSE],
         [FullEnv EXCEPT !.JIRA_API_TOKEN = FALSE]}

----------------------------------------------------------------------------
(* The table jira_cloobot_mapping: a set of rows.  jira_issue_key carries   *)
(* the unique index that ON CONFLICT (jira_issue_key) names.                *)

\* NOW() AT TIME ZONE 'Asia/Kolkata': the wall clock of UTC+05:30, in minutes.
IstOffset == 330

ToIST(t) == t + IstOffset

\* updated_at of a row the INSERT does not set: the column's default.
DefaultUpdatedAt(now) == now

Row(key, item, issue, at) ==
    [jira_issue_key |-> key, cloobot_item_id |-> item,
     jira_issue_id |-> issue, updated_at |-> at]

\* A row written before the first delivery of the behaviour.
InitialRow(k) == Row(k, "ITEM_" \o k, "ID_" \o k, ToIST(0))

InitialStores == {{InitialRow(k) : k \in S} : S \in SUBSET Keys}

Range(s) == {s[i] : i \in DOMAIN s}

KeysOf(st) == {r.jira_issue_key : r \in st}

RowsOf(st, k) == {r \in st : r.jira_issue_key = k}

\* Mutant: a connection in autocommit mode, whose failed statement keeps
\* what it had done.
Transaction_autocommit(fault, st, committed) ==
    IF fault = "none"
    THEN [raised |-> FALSE, store |-> committed]
    ELSE [raised |-> TRUE, store |-> IF fault = "execute" THEN committed ELSE st]

\* DatabaseManager.__enter__ / __exit__ around one statement: a connection
\* that cannot be opened, or a statement that fails before commit, raises
\* and leaves the table as it was (close without commit rolls back).
Transaction(fault, st, committed) ==
    IF fault = "none"
    THEN [raised |-> FALSE, store |-> committed]
    ELSE [raised |-> TRUE, store |-> st]

\* Mutant: the UPDATE without its WHERE clause.
update_mapping_timestamp_every_row(st, jira_key, now, fault) ==
    Transaction(fault, st, {[r EXCEPT !.updated_at = ToIST(now)] : r \in st})

\* Mutant: an upsert, which writes a row when none matches.
update_mapping_timestamp_upsert(st, jira_key, now, fault) ==
    Transaction(fault, st,
        IF jira_key \in KeysOf(st)
        THEN {IF r.jira_issue_key = jira_key
              THEN [r EXCEPT !.updated_at = ToIST(now)]
              ELSE r : r \in st}
        ELSE st \cup {Row(jira_key, "None", "None", ToIST(now))})

\* Mutant: the UPDATE setting cloobot_item_id beside updated_at.
update_mapping_timestamp_item(st, jira_key, now, fault) ==
    Transaction(fault, st,
        {IF r.jira_issue_key = jira_key
         THEN [r EXCEPT !.updated_at = ToIST(now), !.cloobot_item_id = "None"]
         ELSE r : r \in st})

\* UPDATE ... SET updated_at = NOW() AT TIME ZONE 'Asia/Kolkata'
\*  WHERE jira_issue_key = %s
update_mapping_timestamp(st, jira_key, now, fault) ==
    Transaction(fault, st,
        {IF r.jira_issue_key = jira_key
         THEN [r EXCEPT !.updated_at = ToIST(now)]
         ELSE r : r \in st})

\* Mutant: the DELETE without its WHERE clause.
delete_mapping_every_row(st, jira_keys_to_delete, fault) ==
    IF jira_keys_to_delete = <<>>
    THEN [raised |-> FALSE, store |-> st]
    ELSE Transaction(fault, st, {})

\* Mutant: the DELETE matching the first key of the list only.
delete_mapping_first_key(st, jira_keys_to_delete, fault) ==
    IF jira_keys_to_delete = <<>>
    THEN [raised |-> FALSE, store |-> st]
    ELSE Transaction(fault, st,
             {r \in st : r.jira_issue_key # Head(jira_keys_to_delete)})

\* DELETE ... WHERE jira_issue_key IN %s
delete_mapping(st, jira_keys_to_delete, fault) ==
    IF jira_keys_to_delete = <<>>
    THEN [raised |-> FALSE, store |-> st]
    ELSE Transaction(fault, st,
             {r \in st : r.jira_issue_key \notin Range(jira_keys_to_delete)})

\* Mutant: ON CONFLICT (jira_issue_key) DO UPDATE, overwriting the row.
insert_mapping_overwrite(st, cloobot_item_id, jira_issue_id, jira_issue_key, now, fault) ==
    Transaction(fault, st,
        {r \in st : r.jira_issue_key # str(jira_issue_key)}
        \cup {Row(str(jira_issue_key), str(cloobot_item_id),
                  str(jira_issue_id), DefaultUpdatedAt(now))})

\* Mutant: the first two values of the INSERT in each other's column.
insert_mapping_swapped(st, cloobot_item_id, jira_issue_id, jira_issue_key, now, fault) ==
    Transaction(fault, st,
        IF str(jira_issue_key) \in KeysOf(st)
        THEN st
        ELSE st \cup {Row(str(jira_issue_key), str(jira_issue_id),
                          str(cloobot_item_id), DefaultUpdatedAt(now))})

\* INSERT ... VALUES (%s, %s, %s) ON CONFLICT (jira_issue_key) DO NOTHING
insert_mapping(st, cloobot_item_id, jira_issue_id, jira_issue_key, now, fault) ==
    Transaction(fault, st,
        IF str(jira_issue_key) \in KeysOf(st)
        THEN st
        ELSE st \cup {Row(str(jira_issue_key), str(cloobot_item_id),
                          str(jira_issue_id), DefaultUpdatedAt(now))})

----------------------------------------------------------------------------
(* jira_webhook *)

\* What one run of the handler leaves: the response, whether an exception
\* left the handler instead of a response of its own, the table, the number
\* of store statements and tracker requests it attempted, and the list it
\* passed to delete_mapping.
Result(code, message, escaped, st, ops, reqs, keys) ==
    [status_code |-> code, message |-> message, escaped |-> escaped,
     store |-> st, db_ops |-> ops, requests |-> reqs, keys_to_delete |-> keys]

\* return jsonify({"status": "ok", "message": "Webhook processed"})
Processed(st, ops, reqs, keys) ==
    Result(200, "Webhook processed", FALSE, st, ops, reqs, keys)

\* except Exception: return ... "Internal Server Error", 500
InternalError(st, ops, reqs, keys) ==
    Result(500, "Internal Server Error", FALSE, st, ops, reqs, keys)

\* An exception raised outside the try block: the framework answers 500.
Unhandled(st) ==
    Result(500, "<unhandled exception>", TRUE, st, 0, 0, <<>>)

\* Mutant: the chain ending in else instead of elif 'jira:issue_deleted'.
dispatch_else(event_type) ==
    CASE event_type = created -> "created"
      [] event_type = updated -> "updated"
      [] OTHER -> "deleted"

\* The if / elif chain on event_type.
dispatch(event_type) ==
    CASE event_type = created -> "created"
      [] event_type = updated -> "updated"
      [] event_type = deleted -> "deleted"
      [] OTHER -> "ignored"

\* event_type == 'jira:issue_created'
handle_created(data, jira_key, fault, st, now) ==
    LET jira_issue_id == data.issue.id
        cloobot_id_placeholder == "JIRA_CREATED_" \o jira_key
        tx == insert_mapping(st, cloobot_id_placeholder, jira_issue_id,
                             jira_key, now, fault)
    IN  IF tx.raised
        THEN InternalError(tx.store, 1, 0, <<>>)
        ELSE Processed(tx.store, 1, 0, <<>>)

\* item.get('field', '').lower() raises on an item that is no object and on
\* a field that is null.
item_raises(item) ==
    \/ item.shape = "scalar"
    \/ item.field = NULL

\* The loop over changelog['items'] raises on items that cannot be iterated
\* and on the first item that raises; 'items' in changelog raises on a
\* number.
changelog_raises(changelog) ==
    \/ changelog.shape \in {"items_null", "scalar"}
    \/ /\ changelog.shape = "items"
       /\ \E i \in DOMAIN changelog.items : item_raises(changelog.items[i])

\* event_type == 'jira:issue_updated'
handle_updated(data, jira_key, fault, st, now) ==
    LET tx == update_mapping_timestamp(st, jira_key, now, fault)
    IN  IF tx.raised \/ changelog_raises(data.changelog)
        THEN InternalError(tx.store, 1, 0, <<>>)
        ELSE Processed(tx.store, 1, 0, <<>>)

\* issue_data.get('fields', {}).get('issuetype', {}).get('name', '').lower()
\* raises when fields, issuetype or name is null.
issue_type_raises(typ) ==
    typ.shape \in {"fields_null", "issuetype_null", "name_null"}

\* Mutant: the comparison with 'epic' without .lower().
issue_type_as_sent(typ) ==
    IF typ.shape = "name" THEN typ.name ELSE <<>>

issue_type_lower(typ) ==
    IF typ.shape = "name" THEN lower(typ.name) ELSE <<>>

\* event_type == 'jira:issue_deleted'
handle_deleted(data, jira_key, lookup, fault, e, st) ==
    IF issue_type_raises(data.issue.typ)
    THEN InternalError(st, 0, 0, <<>>)
    ELSE IF issue_type_lower(data.issue.typ) = epic
    THEN \* requests.post raises on the URL "None/rest/api/3/search" and on
         \* a connection that fails or times out.
         IF ~e.JIRA_BASE_URL \/ lookup.raised
         THEN InternalError(st, 0, 1, <<>>)
         ELSE LET child_keys == IF lookup.status_code = 200
                                THEN lookup.keys
                                ELSE <<>>
                  keys_to_delete == <<jira_key>> \o child_keys
                  tx == delete_mapping(st, keys_to_delete, fault)
              IN  IF tx.raised
                  THEN InternalError(tx.store, 1, 1, keys_to_delete)
                  ELSE Processed(tx.store, 1, 1, keys_to_delete)
    ELSE LET keys_to_delete == <<jira_key>>
             tx == delete_mapping(st, keys_to_delete, fault)
         IN  IF tx.raised
             THEN InternalError(tx.store, 1, 0, keys_to_delete)
             ELSE Processed(tx.store, 1, 0, keys_to_delete)

jira_webhook(data, lookup, fault, e, st, now) ==
    \* issue_data = data.get('issue', {}); issue_data.get('key')
    IF data.issue.shape \in {"null", "scalar"}
    THEN Unhandled(st)
    ELSE LET event_type == data.webhookEvent
             jira_key == IF data.issue.shape = "absent"
                         THEN ABSENT
                         ELSE data.issue.key
         IN  IF ~truthy(jira_key)
             THEN Result(400, "Invalid payload", FALSE, st, 0, 0, <<>>)
             \* DatabaseManager(): ValueError when DATABASE_URL is not set
             ELSE IF ~e.DATABASE_URL
             THEN Unhandled(st)
             ELSE IF ~(e.JIRA_EMAIL /\ e.JIRA_API_TOKEN /\ e.DATABASE_URL)
             THEN Result(500, "Server configuration missing", FALSE, st, 0, 0, <<>>)
             ELSE CASE dispatch(event_type) = "created" ->
                         handle_created(data, jira_key, fault, st, now)
                    [] dispatch(event_type) = "updated" ->
                         handle_updated(data, jira_key, fault, st, now)
                    [] dispatch(event_type) = "deleted" ->
                         handle_deleted(data, jira_key, lookup, fault, e, st)
                    [] OTHER -> Processed(st, 0, 0, <<>>)

----------------------------------------------------------------------------
(* The state machine *)

NoData == [webhookEvent |-> ABSENT, issue |-> NoIssue("absent"),
           changelog |-> NoChangelog]

\* Before the first delivery.
NoLast == [handled |-> FALSE, data |-> NoData, lookup |-> NoLookup,
           fault |-> "none", before |-> {}, now |-> 0,
           result |-> Result(0, "", FALSE, {}, 0, 0, <<>>)]

\* The two requests of SpecSteps.
Handlers == {1, 2}

\* A worker thread that has received no request.
IdleProc == [pc |-> "idle", data |-> NoData, lookup |-> NoLookup,
             fault |-> "none", keys_to_delete |-> <<>>, open |-> 0,
             opened |-> 0, failed |-> FALSE, status_code |-> 0,
             message |-> ""]

NoProcs == [h \in Handlers |-> IdleProc]

\* What has happened to each key so far: it had a row before the first
\* delivery, a created event for it wrote its row, a deleted event for it
\* removed its row.
History(st) == [initial |-> KeysOf(st), created |-> {}, removed |-> {}]

Record(h, data, st, r) ==
    IF data.issue.shape # "object" \/ data.issue.key \notin Keys
    THEN h
    ELSE LET k == data.issue.key
         IN  [h EXCEPT
                !.created = IF /\ data.webhookEvent = created
                               /\ k \in KeysOf(r.store) \ KeysOf(st)
                            THEN @ \cup {k} ELSE @,
                !.removed = IF /\ data.webhookEvent = deleted
                               /\ k \in KeysOf(st) \ KeysOf(r.store)
                            THEN @ \cup {k} ELSE @]

Init ==
    /\ store \in InitialStores
    /\ clock = 1
    /\ env \in Envs
    /\ last = NoLast
    /\ hist = History(store)
    /\ procs = NoProcs

\* One POST /webhook/jira, from the request to the response.  The tracker
\* answers only a search that is made (one sent to a URL without a base
\* never leaves requests.post, which raises) and the store only a statement
\* that is run.
Webhook ==
    /\ ~last.handled
    /\ clock <= MaxClock
    /\ \E data \in Payloads :
         LET asked == jira_webhook(data, NoLookup, "none", env, store, clock).requests > 0
             answers == IF ~asked THEN {NoLookup}
                        ELSE IF env.JIRA_BASE_URL THEN Lookups
                        ELSE {l \in Lookups : l.raised}
         IN  \E lookup \in answers :
               LET ran == jira_webhook(data, lookup, "none", env, store, clock).db_ops > 0
               IN  \E fault \in IF ran THEN Faults ELSE {"none"} :
                     LET r == jira_webhook(data, lookup, fault, env, store, clock)
                     IN  /\ store' = r.store
                         /\ last' = [handled |-> TRUE, data |-> data,
                                     lookup |-> lookup, fault |-> fault,
                                     before |-> store, now |-> clock,
                                     result |-> r]
                         /\ hist' = Record(hist, data, store, r)
    /\ UNCHANGED <<clock, env, procs>>

\* The response has gone out; the server waits for the next delivery, which
\* arrives later on the wall clock.
Return ==
    /\ last.handled
    /\ last' = NoLast
    /\ clock' = clock + 1
    /\ UNCHANGED <<store, env, hist, procs>>

Next == Webhook \/ Return

Spec == Init /\ [][Next]_vars

----------------------------------------------------------------------------
(* Two requests side by side *)

\* Mutant: __exit__ closing the connection only when the block did not raise.
DatabaseManager_exit_unless_raised(open, raised) ==
    IF raised THEN open ELSE 0

\* __exit__: if self.conn: self.conn.close().  The number of connections the
\* manager still holds open.
DatabaseManager_exit(open, raised) == 0

\* __enter__: psycopg2.connect, which raises or yields one open connection.
DatabaseManager_enter(fault) == IF fault = "connect" THEN 0 ELSE 1

\* The payloads of the two requests: each event for each key, an epic and a
\* plain delete, a changelog that raises, a payload without a key.
StepPayloads ==
    [webhookEvent : {created, updated, worklog},
     issue : {Issue(k, ABSENT, NoType) : k \in Keys},
     changelog : {NoChangelog}]
    \cup [webhookEvent : {updated},
          issue : {Issue(k, ABSENT, NoType) : k \in Keys},
          changelog : {HostileChangelog}]
    \cup [webhookEvent : {deleted},
          issue : {Issue(k, ABSENT, t) : k \in Keys,
                     t \in {NoType, [shape |-> "name", name |-> EpicTitle]}},
          changelog : {NoChangelog}]
    \cup [webhookEvent : {created},
          issue : {NoIssue("absent")},
          changelog : {NoChangelog}]

\* The tracker's answers to their searches: no child or one, a refusal, no
\* answer.
StepLookups ==
    [raised : {FALSE}, status_code : {200},
     keys : {<<>>} \cup {<<k>> : k \in Keys}]
    \cup [raised : {FALSE}, status_code : {404}, keys : {<<>>}]
    \cup [raised : {TRUE}, status_code : {0}, keys : {<<>>}]

\* The request ends with this response.
Respond(p, code, message) ==
    [p EXCEPT !.pc = "done", !.status_code = code, !.message = message]

\* Lines 80 to 117: the payload is read, the configuration checked and the
\* branch chosen; the created and updated branches go on to their statement,
\* the deleted branch to the child search or to its statement.
received(data, e) ==
    LET p == [IdleProc EXCEPT !.data = data]
        jira_key == IF data.issue.shape = "absent" THEN ABSENT ELSE data.issue.key
    IN  IF data.issue.shape \in {"null", "scalar"}
        THEN Respond(p, 500, "<unhandled exception>")
        ELSE IF ~truthy(jira_key)
        THEN Respond(p, 400, "Invalid payload")
        ELSE IF ~e.DATABASE_URL
        THEN Respond(p, 500, "<unhandled exception>")
        ELSE IF ~(e.JIRA_EMAIL /\ e.JIRA_API_TOKEN /\ e.DATABASE_URL)
        THEN Respond(p, 500, "Server configuration missing")
        ELSE CASE dispatch(data.webhookEvent) \in {"created", "updated"} ->
                    [p EXCEPT !.pc = "enter"]
               [] dispatch(data.webhookEvent) = "deleted" ->
                    IF issue_type_raises(data.issue.typ)
                    THEN Respond(p, 500, "Internal Server Error")
                    ELSE [p EXCEPT !.keys_to_delete = <<jira_key>>,
                                   !.pc = IF issue_type_lower(data.issue.typ) = epic
                                          THEN "search" ELSE "enter"]
               [] OTHER -> Respond(p, 200, "Webhook processed")

Receive(h) ==
    /\ procs[h].pc = "idle"
    /\ \E data \in StepPayloads :
         procs' = [procs EXCEPT ![h] = received(data, env)]
    /\ UNCHANGED <<store, clock, env, last, hist>>

\* Lines 119 to 134: requests.post and what the handler makes of its answer.
searched(p, lookup, e) ==
    LET q == [p EXCEPT !.lookup = lookup]
    IN  IF ~e.JIRA_BASE_URL \/ lookup.raised
        THEN Respond(q, 500, "Internal Server Error")
        ELSE [q EXCEPT !.pc = "enter",
                       !.keys_to_delete =
                           IF lookup.status_code = 200 THEN @ \o lookup.keys ELSE @]

Search(h) ==
    /\ procs[h].pc = "search"
    /\ \E lookup \in StepLookups :
         procs' = [procs EXCEPT ![h] = searched(procs[h], lookup, env)]
    /\ UNCHANGED <<store, clock, env, last, hist>>

\* with self as conn: the connection is opened, or the request ends.
entered(p, fault) ==
    LET q == [p EXCEPT !.fault = fault,
                       !.open = @ + DatabaseManager_enter(fault),
                       !.opened = @ + DatabaseManager_enter(fault)]
    IN  IF DatabaseManager_enter(fault) = 0
        THEN Respond(q, 500, "Internal Server Error")
        ELSE [q EXCEPT !.pc = "execute"]

Enter(h) ==
    /\ procs[h].pc = "enter"
    /\ \E fault \in Faults :
         procs' = [procs EXCEPT ![h] = entered(procs[h], fault)]
    /\ UNCHANGED <<store, clock, env, last, hist>>

\* cur.execute and conn.commit of the branch's DatabaseManager method.
statement(p, st, now) ==
    LET k == p.data.issue.key
    IN  CASE dispatch(p.data.webhookEvent) = "created" ->
               insert_mapping(st, "JIRA_CREATED_" \o k, p.data.issue.id, k, now, p.fault)
          [] dispatch(p.data.webhookEvent) = "updated" ->
               update_mapping_timestamp(st, k, now, p.fault)
          [] OTHER ->
               delete_mapping(st, p.keys_to_delete, p.fault)

Execute(h) ==
    /\ procs[h].pc = "execute"
    /\ LET tx == statement(procs[h], store, clock)
       IN  /\ store' = tx.store
           /\ procs' = [procs EXCEPT ![h].pc = "exit", ![h].failed = tx.raised]
    /\ clock' = clock + 1
    /\ UNCHANGED <<env, last, hist>>

\* __exit__, then the rest of the branch and the response.
exited(p) ==
    LET q == [p EXCEPT !.open = DatabaseManager_exit(@, p.failed)]
    IN  IF p.failed
        THEN Respond(q, 500, "Internal Server Error")
        ELSE IF /\ dispatch(p.data.webhookEvent) = "updated"
                /\ changelog_raises(p.data.changelog)
        THEN Respond(q, 500, "Internal Server Error")
        ELSE Respond(q, 200, "Webhook processed")

Exit(h) ==
    /\ procs[h].pc = "exit"
    /\ procs' = [procs EXCEPT ![h] = exited(procs[h])]
    /\ UNCHANGED <<store, clock, env, last, hist>>

InitSteps ==
    /\ store \in InitialStores
    /\ clock = 1
    /\ env = FullEnv
    /\ last = NoLast
    /\ hist = History(store)
    /\ procs = NoProcs

NextSteps ==
    \E h \in Handlers :
        Receive(h) \/ Search(h) \/ Enter(h) \/ Execute(h) \/ Exit(h)

SpecSteps == InitSteps /\ [][NextSteps]_vars

----------------------------------------------------------------------------
(* Vocabulary of the claims, over the delivery recorded in last *)

\* The four configuration items the specification requires.
RequiredConfig(e) ==
    e.DATABASE_URL /\ e.JIRA_BASE_URL /\ e.JIRA_EMAIL /\ e.JIRA_API_TOKEN

\* The delivery carries a non-empty issue key.
HasKey == last.handled /\ last.data.issue.shape = "object"
          /\ last.data.issue.key \in Keys

EventKey == last.data.issue.key

Handled(event_type) == HasKey /\ last.data.webhookEvent = event_type

\* issue.fields.issuetype.name is 'epic' in some letter case.
NamedEpic == last.data.issue.typ \in EpicTypes

\* The tracker answered the child search with 200 and a list of issues.
LookupSucceeded ==
    last.result.requests = 1 /\ ~last.lookup.raised /\ last.lookup.status_code = 200

\* The child search failed: a status other than 200, or no answer at all.
LookupFailed ==
    last.result.requests = 1 /\ (last.lookup.raised \/ last.lookup.status_code # 200)

StoreHealthy == last.fault = "none"

Succeeded == last.result.status_code = 200 /\ ~last.result.escaped

Unchanged(k) == RowsOf(store, k) = RowsOf(last.before, k)

----------------------------------------------------------------------------
(* C1 *)

\* C1: after an epic delete for E whose child search returned a list (which
\* may hold E or repeat a key) and whose DELETE committed, no row of E or of
\* a returned child is left, and every row of any other key is as it was.
C1_CascadeComplete ==
    (Handled(deleted) /\ NamedEpic /\ LookupSucceeded /\ StoreHealthy)
    => /\ \A k \in {EventKey} \cup Range(last.lookup.keys) : RowsOf(store, k) = {}
       /\ \A r \in last.before :
            r.jira_issue_key \notin {EventKey} \cup Range(last.lookup.keys)
            => r \in store
       /\ store \subseteq last.before
       /\ Succeeded

\* An epic with a row, a child list naming a child and the epic itself, and
\* an unrelated row that survives alone.
C1_Witness ==
    /\ Handled(deleted) /\ NamedEpic /\ LookupSucceeded /\ StoreHealthy
    /\ EventKey = "PROJ-10"
    /\ last.lookup.keys = <<"PROJ-11", "PROJ-10">>
    /\ KeysOf(last.before) = Keys
    /\ store = {InitialRow("PROJ-99")}

----------------------------------------------------------------------------
(* C2 *)

\* C2: whenever the child search of an epic delete for E, which has a row,
\* fails (a status other than 200, or the request raising), E's row is
\* removed, the response is a success and every other row stays.
C2_CascadeDegrades ==
    (Handled(deleted) /\ NamedEpic /\ EventKey \in KeysOf(last.before)
     /\ RequiredConfig(env) /\ LookupFailed /\ StoreHealthy)
    => /\ RowsOf(store, EventKey) = {}
       /\ Succeeded
       /\ \A r \in last.before : r.jira_issue_key # EventKey => r \in store

----------------------------------------------------------------------------
(* C3 *)

\* C3: the table never holds two rows of one key; a created event for a key
\* that has a row leaves the table as it was, and answers success when the
\* configuration is present and the statement is not failed by the store.
C3_IdempotentCreate ==
    /\ \A k \in KeysOf(store) : Cardinality(RowsOf(store, k)) = 1
    /\ (Handled(created) /\ EventKey \in KeysOf(last.before))
       => /\ Unchanged(EventKey)
          /\ store = last.before
    /\ (Handled(created) /\ EventKey \in KeysOf(last.before)
        /\ RequiredConfig(env) /\ StoreHealthy)
       => Succeeded /\ last.result.db_ops = 1

\* A second created event for a key, carrying another issue id than the row
\* the first one wrote.
C3_Witness ==
    /\ Handled(created) /\ StoreHealthy /\ Succeeded
    /\ EventKey = "PROJ-10"
    /\ last.data.issue.id = "10010"
    /\ Row("PROJ-10", "JIRA_CREATED_PROJ-10", "None", 1) \in last.before
    /\ Row("PROJ-10", "JIRA_CREATED_PROJ-10", "None", 1) \in store

----------------------------------------------------------------------------
(* C4 *)

\* The same delivery handled once more, right after the one in last.
Redelivered ==
    jira_webhook(last.data, last.lookup, last.fault, env, store, clock + 1)

\* C4: after a delete event for K, which had a row, K has none; the same
\* event handled again leaves that table and answers success; a DELETE of a
\* key without a row removes nothing.
C4_IdempotentDelete ==
    (Handled(deleted) /\ EventKey \in KeysOf(last.before)
     /\ RequiredConfig(env) /\ StoreHealthy
     /\ ~issue_type_raises(last.data.issue.typ))
    => /\ RowsOf(store, EventKey) = {}
       /\ Redelivered.store = store
       /\ Redelivered.status_code = 200
       /\ \A k \in Keys \ KeysOf(store) :
            delete_mapping(store, <<k>>, "none").store = store

----------------------------------------------------------------------------
(* C5 *)

\* The payload has no issue.key (issue is missing or null, or key is), or
\* an empty one.
KeyMissing ==
    \/ last.data.issue.shape \in {"absent", "null"}
    \/ /\ last.data.issue.shape = "object"
       /\ last.data.issue.key \in {ABSENT, NULL, ""}

\* C5: every payload without a non-empty issue.key is answered 400 'Invalid
\* payload', with no store statement and no tracker request.
C5_MissingKeyRejected ==
    (last.handled /\ KeyMissing)
    => /\ last.result.status_code = 400
       /\ last.result.message = "Invalid payload"
       /\ ~last.result.escaped
       /\ last.result.db_ops = 0
       /\ last.result.requests = 0
       /\ store = last.before

----------------------------------------------------------------------------
(* C6 *)

\* C6: after an updated event for a key K with a row, whose UPDATE committed,
\* K's updated_at is strictly later than before, K's two ids are as they
\* were, and every row of another key is as it was.
C6_TouchAdvances ==
    (Handled(updated) /\ EventKey \in KeysOf(last.before)
     /\ RequiredConfig(env) /\ StoreHealthy)
    => /\ \A old \in RowsOf(last.before, EventKey) :
            \E new \in RowsOf(store, EventKey) :
              /\ new.updated_at > old.updated_at
              /\ new.cloobot_item_id = old.cloobot_item_id
              /\ new.jira_issue_id = old.jira_issue_id
       /\ Cardinality(RowsOf(store, EventKey)) = 1
       /\ \A k \in Keys \ {EventKey} : Unchanged(k)
       /\ KeysOf(store) = KeysOf(last.before)

\* The second touch of a row, beside a row of another key.
C6_Witness ==
    /\ Handled(updated) /\ StoreHealthy
    /\ EventKey = "PROJ-10"
    /\ Row("PROJ-10", "ITEM_PROJ-10", "ID_PROJ-10", ToIST(1)) \in last.before
    /\ Row("PROJ-10", "ITEM_PROJ-10", "ID_PROJ-10", ToIST(2)) \in store
    /\ InitialRow("PROJ-99") \in store

----------------------------------------------------------------------------
(* C7 *)

\* C7: an updated or deleted event (epic or not) for a key without a row is
\* answered success and leaves the table as it was, here with the tracker
\* answering every search that is made.
C7_UnknownKeyIgnored ==
    (HasKey /\ last.data.webhookEvent \in {updated, deleted}
     /\ EventKey \notin KeysOf(last.before)
     /\ RequiredConfig(env) /\ StoreHealthy /\ ~last.lookup.raised
     /\ ~issue_type_raises(last.data.issue.typ)
     /\ ~changelog_raises(last.data.changelog))
    => /\ Succeeded
       /\ store = last.before

----------------------------------------------------------------------------
(* C8 *)

\* C8: with the configuration present, a delivery with a non-empty key and a
\* webhookEvent other than the three recognised ones (or none) is answered
\* success, runs no store statement, sends no tracker request and leaves the
\* table as it was.
C8_UnknownEventTolerated ==
    (HasKey /\ RequiredConfig(env)
     /\ last.data.webhookEvent \notin {created, updated, deleted})
    => /\ Succeeded
       /\ last.result.db_ops = 0
       /\ last.result.requests = 0
       /\ store = last.before

\* An unrecognised event over a table with rows, its unread fields hostile.
C8_Witness ==
    /\ HasKey /\ RequiredConfig(env)
    /\ last.data.webhookEvent = worklog
    /\ last.data.issue.typ = HostileType
    /\ last.data.changelog = HostileChangelog
    /\ EventKey \in KeysOf(store)
    /\ Succeeded

----------------------------------------------------------------------------
(* C9 *)

\* C9: with any of the four configuration items absent, every delivery with
\* a valid key ends in the response 'Server configuration missing', with no
\* store statement and no tracker request.
C9_ConfigFailFast ==
    (HasKey /\ ~RequiredConfig(env))
    => /\ last.result.status_code = 500
       /\ last.result.message = "Server configuration missing"
       /\ ~last.result.escaped
       /\ last.result.db_ops = 0
       /\ last.result.requests = 0

----------------------------------------------------------------------------
(* C10 *)

\* The tracker, when asked, answered 200.
TrackerHealthy == last.result.requests = 0 \/ LookupSucceeded

\* C10: with configuration, store and tracker healthy, every payload ends in
\* a 200 or a 400 of the handler's own; none ends in a 500 or in an exception
\* that leaves the handler.
C10_TotalClassification ==
    (last.handled /\ RequiredConfig(env) /\ StoreHealthy /\ TrackerHealthy)
    => /\ last.result.status_code \in {200, 400}
       /\ ~last.result.escaped

----------------------------------------------------------------------------
(* C11 *)

\* The store failed the statement of the delivery in last.
StoreFailed == last.handled /\ last.result.db_ops = 1 /\ last.fault # "none"

\* C11: when the store fails the statement of an event (no connection, or a
\* failure before commit) the table is as it was before the event and the
\* response is the generic 500; and after any delete event the table is
\* either as it was or without every row of the whole key list, never
\* without the rows of a part of it.
C11_StoreFailureAtomic ==
    /\ StoreFailed
       => /\ store = last.before
          /\ last.result.status_code = 500
          /\ last.result.message = "Internal Server Error"
          /\ ~last.result.escaped
    /\ Handled(deleted)
       => \/ store = last.before
          \/ store = {r \in last.before :
                        r.jira_issue_key \notin Range(last.result.keys_to_delete)}

\* The DELETE of an epic and two children with rows fails before commit.
C11_Witness ==
    /\ StoreFailed /\ last.fault = "execute"
    /\ Handled(deleted) /\ NamedEpic
    /\ last.result.keys_to_delete = <<"PROJ-10", "PROJ-11", "PROJ-99">>
    /\ KeysOf(store) = Keys

----------------------------------------------------------------------------
(* C12 *)

\* The delivery in last, had it carried no changelog.
WithoutChangelog ==
    jira_webhook([last.data EXCEPT !.changelog = NoChangelog], last.lookup,
                 last.fault, env, last.before, last.now)

\* The changelog is missing, empty, or a list of objects whose field is a
\* string, missing or null.
ListedChangelog ==
    /\ last.data.changelog.shape \in {"absent", "empty", "items"}
    /\ \A i \in DOMAIN last.data.changelog.items :
         last.data.changelog.items[i].shape = "object"

\* C12: an updated event ends in the same response and the same table
\* whatever its changelog is.
C12_ChangelogIgnored ==
    (Handled(updated) /\ ListedChangelog)
    => /\ last.result.status_code = WithoutChangelog.status_code
       /\ last.result.message = WithoutChangelog.message
       /\ store = WithoutChangelog.store

----------------------------------------------------------------------------
(* C15 *)

\* issue.fields.issuetype.name is missing (fields, issuetype or name is).
TypeNameAbsent ==
    last.data.issue.typ.shape \in {"fields_absent", "issuetype_absent", "name_absent"}

\* issue.fields.issuetype.name is a string other than 'epic' in any case.
TypeNameOther ==
    last.data.issue.typ.shape = "name" /\ ~NamedEpic

----------------------------------------------------------------------------
(* C16 *)

\* C16: after a created event for a key K without a row, with the
\* configuration present and the INSERT committed, the table holds one row
\* of K, its item id 'JIRA_CREATED_' followed by K and its issue id the
\* event's issue.id when the event carries one; the rows of the other keys
\* are as they were and the response is success.
C16_CreateEffect ==
    (Handled(created) /\ EventKey \notin KeysOf(last.before)
     /\ RequiredConfig(env) /\ StoreHealthy)
    => /\ Cardinality(RowsOf(store, EventKey)) = 1
       /\ \A r \in RowsOf(store, EventKey) :
            /\ r.cloobot_item_id = "JIRA_CREATED_" \o EventKey
            /\ last.data.issue.id # ABSENT => r.jira_issue_id = last.data.issue.id
       /\ \A k \in Keys \ {EventKey} : Unchanged(k)
       /\ KeysOf(store) = KeysOf(last.before) \cup {EventKey}
       /\ Succeeded

\* A created event with an issue id, beside a row of another key.
C16_Witness ==
    /\ Handled(created) /\ StoreHealthy /\ Succeeded
    /\ EventKey = "PROJ-11"
    /\ last.before = {InitialRow("PROJ-99")}
    /\ store = {InitialRow("PROJ-99"),
                Row("PROJ-11", "JIRA_CREATED_PROJ-11", "10010", last.now)}

----------------------------------------------------------------------------
(* C14 *)

\* An updated event for a key whose row an earlier deleted event removed,
\* and which is still without a row.
UpdateAfterDelete ==
    /\ Handled(updated)
    /\ EventKey \in hist.removed
    /\ EventKey \notin KeysOf(last.before)

\* C14 as amended: an updated event applied after the deleted event for the
\* same key does not bring the row back; the UPDATE matches no row and the
\* table stays as it was.
C14_NoResurrection ==
    UpdateAfterDelete
    => /\ EventKey \notin KeysOf(store)
       /\ store = last.before

\* The row is deleted, then the update is delivered and answered 200.
C14_Witness ==
    /\ UpdateAfterDelete
    /\ StoreHealthy /\ Succeeded
    /\ EventKey \notin KeysOf(store)

\* C14 as claimed: the run in which a deleted event for K is applied first
\* and the redelivered updated event for K afterwards ends with a row of K.
C14_Resurrection ==
    (UpdateAfterDelete /\ StoreHealthy /\ Succeeded)
    => EventKey \in KeysOf(store)

----------------------------------------------------------------------------
(* C18 *)

\* Every row of st has the row of its key in before, with the same two ids.
SameIds(st, earlier) ==
    \A r \in st : \E o \in earlier :
        /\ o.jira_issue_key = r.jira_issue_key
        /\ o.cloobot_item_id = r.cloobot_item_id
        /\ o.jira_issue_id = r.jira_issue_id

\* C18: every key of the table had a row before the first delivery or was
\* the key of a handled created event; an event that is no created event
\* adds no key and changes no row's item id or issue id.
C18_OnlyCreateAdds ==
    /\ KeysOf(store) \subseteq hist.initial \cup hist.created
    /\ (last.handled /\ last.data.webhookEvent # created)
       => /\ KeysOf(store) \subseteq KeysOf(last.before)
          /\ SameIds(store, last.before)

\* A row that a created event added, touched by an updated event.
C18_Witness ==
    /\ Handled(updated) /\ StoreHealthy
    /\ EventKey \notin hist.initial
    /\ EventKey \in hist.created
    /\ RowsOf(store, EventKey) # RowsOf(last.before, EventKey)

----------------------------------------------------------------------------
(* C13 *)

\* Both requests have been answered.
BothDone == \A h \in Handlers : procs[h].pc = "done"

\* The issue key of request h.
StepKey(h) == procs[h].data.issue.key

\* The two requests carry issue keys, and different ones.
DifferentKeys ==
    /\ \A h \in Handlers : procs[h].data.issue.shape = "object"
    /\ StepKey(1) # StepKey(2)

\* The table before the two requests.
store0 == {InitialRow(k) : k \in hist.initial}

\* The table after request a is handled to its end and then request b, each
\* with the answers it got from the tracker and the store.
InOrder(a, b) ==
    LET first == jira_webhook(procs[a].data, procs[a].lookup, procs[a].fault,
                              env, store0, 1)
    IN  jira_webhook(procs[b].data, procs[b].lookup, procs[b].fault,
                     env, first.store, 2).store

\* A table without its timestamps.
Untimed(st) == {[r EXCEPT !.updated_at = 0] : r \in st}

\* One request is an epic delete whose search returned the key that the
\* other request creates.
DeletesCreated ==
    \E a \in Handlers : \E b \in Handlers \ {a} :
        /\ procs[a].data.webhookEvent = deleted
        /\ procs[b].data.webhookEvent = created
        /\ StepKey(b) \in Range(procs[a].keys_to_delete)

\* C13 as amended: two events with different issue keys end, in every
\* interleaving of their steps and in either order, in the same table up to
\* timestamps, unless one is an epic delete whose child search returns the
\* key the other one creates.
C13_DifferentKeysCommute ==
    (BothDone /\ DifferentKeys /\ ~DeletesCreated)
    => /\ Untimed(store) = Untimed(InOrder(1, 2))
       /\ Untimed(InOrder(1, 2)) = Untimed(InOrder(2, 1))

\* An epic delete that removed two rows beside a create for a third key.
C13_Witness ==
    /\ BothDone /\ DifferentKeys /\ ~DeletesCreated
    /\ procs[1].data.webhookEvent = deleted
    /\ procs[1].keys_to_delete = <<"PROJ-10", "PROJ-11">>
    /\ procs[2].data.webhookEvent = created /\ StepKey(2) = "PROJ-99"
    /\ \A h \in Handlers : procs[h].status_code = 200
    /\ hist.initial = {"PROJ-10", "PROJ-11"}
    /\ KeysOf(store) = {"PROJ-99"}

\* C13 as claimed: any two events with different issue keys, an epic delete
\* included, end in the same table (up to timestamps) in every interleaving
\* and in either order.
C13_AnyKindsCommute ==
    (BothDone /\ DifferentKeys)
    => /\ Untimed(store) = Untimed(InOrder(1, 2))
       /\ Untimed(InOrder(1, 2)) = Untimed(InOrder(2, 1))

----------------------------------------------------------------------------
(* C17 *)

\* C17: a request that has been answered holds no open connection, whatever
\* the answer; a request never holds more than one; and it holds none while
\* its child search is in flight.
C17_ScopedConnections ==
    \A h \in Handlers :
        /\ procs[h].pc = "done" => procs[h].open = 0
        /\ procs[h].open <= 1
        /\ procs[h].opened <= 1
        /\ procs[h].pc = "search" => procs[h].open = 0

\* A request whose statement raised was answered 500 with its one
\* connection closed, while the other request holds its own connection.
C17_Witness ==
    \E h \in Handlers : \E g \in Handlers \ {h} :
        /\ procs[h].pc = "done" /\ procs[h].failed
        /\ procs[h].status_code = 500
        /\ procs[h].opened = 1 /\ procs[h].open = 0
        /\ procs[g].pc = "exit" /\ procs[g].open = 1

====
